---- MODULE Spec2Model ----
(***************************************************************************)
(* Model of the history collector (src/python/main.py): the ingestion loop *)
(* that downloads a ledger file and a transactions file from the archive,  *)
(* decodes them, writes the payment / trustline rows of one asset to the   *)
(* database together with the 'lastfile' checkpoint, and moves on to the   *)
(* next file name.                                                         *)
(*                                                                         *)
(* Strings whose characters matter (file sequences) are sequences of       *)
(* one-character strings.  Python integers are unbounded, so the integer   *)
(* a file sequence parses to is a little-endian sequence of base-16 digits *)
(* without leading zeros.                                                  *)
(***************************************************************************)
EXTENDS Integers, Sequences, FiniteSets, TLC

VARIABLES
    MAX_RETRIES,        \* int(os.environ['MAX_RETRIES'])
    ASSET_CODE,         \* os.environ['ASSET_CODE']
    db,                 \* the durable database: lastfile, payments, trustlines (+ commit journal)
    conn,               \* the open transaction of the connection (statements not yet committed)
    archive,            \* the archive files read so far: file sequence -> contents
    staged,             \* downloaded files present in local storage
    pc,                 \* position of the process in main()
    file_sequence,      \* main(): file_sequence
    attempt,            \* download_file(): loop variable of the running call
    ledgers_dictionary, \* main(): ledgers_dictionary
    transactions,       \* main(): transactions
    dl,                 \* observation of the current / last download_file call
    run                 \* observation of the process runs (restarts, exits, cycles)

vars == <<MAX_RETRIES, ASSET_CODE, db, conn, archive, staged, pc, file_sequence,
          attempt, ledgers_dictionary, transactions, dl, run>>

-----------------------------------------------------------------------------
(* Bounds of the model *)

MaxRetriesBound == 2    \* MAX_RETRIES ranges over 0..MaxRetriesBound
MaxCycles == 2          \* write_to_postgres calls over all runs
MaxRestarts == 1        \* restarts by the supervisor

(* Program constants *)

BACKOFF == 180
STEP == 64
WIDTH == 8
SLICE == 9

-----------------------------------------------------------------------------
(* Python values *)

None == [t |-> "None"]
PyInt(v) == [t |-> "int", v |-> v]
PyStr(s) == [t |-> "str", v |-> s]

(* SQL values as they are rendered into the statement text *)
SqlNull == [t |-> "NULL"]
SqlText(s) == [t |-> "text", v |-> s]
SqlNumber(v) == [t |-> "number", v |-> v]
SqlIdentifier(s) == [t |-> "identifier", v |-> s]

-----------------------------------------------------------------------------
(* File sequences: hexadecimal strings and the integers they denote *)

HexChars == <<"0", "1", "2", "3", "4", "5", "6", "7",
              "8", "9", "a", "b", "c", "d", "e", "f">>

HexCharSet == {HexChars[i] : i \in 1..16}

HexDigit(c) == CHOOSE d \in 0..15 : HexChars[d + 1] = c

Reverse(s) == [i \in 1..Len(s) |-> s[Len(s) + 1 - i]]

RECURSIVE StripZeros(_)
StripZeros(d) ==
    IF d = <<>> THEN <<>>
    ELSE IF d[Len(d)] = 0 THEN StripZeros(SubSeq(d, 1, Len(d) - 1))
    ELSE d

\* int(s, 16)
IntFromHex(s) == StripZeros(Reverse([i \in 1..Len(s) |-> HexDigit(s[i])]))

\* n + k for an unbounded n and a small k >= 0
RECURSIVE BigAdd(_, _)
BigAdd(n, k) ==
    IF k = 0 THEN n
    ELSE IF n = <<>> THEN <<k % 16>> \o BigAdd(<<>>, k \div 16)
    ELSE <<(n[1] + k) % 16>> \o BigAdd(Tail(n), (n[1] + k) \div 16)

\* n < m for unbounded n, m
RECURSIVE BigLess(_, _)
BigLess(n, m) ==
    IF Len(n) # Len(m) THEN Len(n) < Len(m)
    ELSE IF n = <<>> THEN FALSE
    ELSE IF n[Len(n)] # m[Len(m)] THEN n[Len(n)] < m[Len(m)]
    ELSE BigLess(SubSeq(n, 1, Len(n) - 1), SubSeq(m, 1, Len(m) - 1))

\* hex(n).replace('0x', '')
HexOf(n) ==
    IF n = <<>> THEN <<"0">>
    ELSE Reverse([i \in 1..Len(n) |-> HexChars[n[i] + 1]])

\* '0' * k
Zeros(k) == IF k <= 0 THEN <<>> ELSE [i \in 1..k |-> "0"]

\* the next name computed with twice the step
get_new_file_sequence_skip(old_file_name) ==
    LET h == HexOf(BigAdd(IntFromHex(old_file_name), 2 * STEP))
    IN  Zeros(WIDTH - Len(h)) \o h

\* each statement's value is computed once and handed to the next statement
get_new_file_sequence(old_file_name) ==
    LET new1 == {IntFromHex(old_file_name)}
        new2 == {BigAdd(n, STEP) : n \in new1}
        new3 == {HexOf(n) : n \in new2}
        new4 == {Zeros(WIDTH - Len(h)) \o h : h \in new3}
    IN  CHOOSE new_file_name \in new4 : TRUE

-----------------------------------------------------------------------------
(* Configuration *)

ASSET_ISSUER == "GISSUER"

AssetCodes == {"ABCD", "ABCDE", "ABCDEFGHIJKL"}

\* 'alphaNum' + '4' if len(ASSET_CODE) <= 4 else '12'
AssetTypeOf(code) == IF Len(code) <= 4 THEN "alphaNum" \o "4" ELSE "12"

ASSET_TYPE == AssetTypeOf(ASSET_CODE)

-----------------------------------------------------------------------------
(* Decoded archive contents (the output of xdrparser) *)

Asset4(code, issuer) == [type |-> "alphaNum4", assetCode |-> code, issuer |-> issuer]
Asset12(code, issuer) == [type |-> "alphaNum12", assetCode |-> code, issuer |-> issuer]
NativeAsset == [type |-> "native", assetCode |-> "", issuer |-> ""]

PaymentOp(asset, src, dst, amount) ==
    [type |-> 1, asset |-> asset, sourceAccount |-> src, destination |-> dst, amount |-> amount]
ChangeTrustOp(asset, src) ==
    [type |-> 6, asset |-> asset, sourceAccount |-> src, destination |-> "", amount |-> 0]
OtherOp(src) ==
    [type |-> 0, asset |-> NativeAsset, sourceAccount |-> src, destination |-> "", amount |-> 0]

Tx(hash, src, memo, ops) ==
    [hash |-> hash, sourceAccount |-> src, memo |-> memo, operations |-> ops]
Entry(seq, txs) == [ledgerSeq |-> seq, txs |-> txs]
Ledger(seq, closeTime) == [ledgerSeq |-> seq, closeTime |-> closeTime]

\* The file pairs the archive may hold under one file sequence
ArchiveFiles == {
    \* one ledger, one transaction with one matching payment, no memo
    [ledgers |-> <<Ledger(100, 1000)>>,
     transactions |-> <<Entry(100, <<Tx("h1", "GA", None,
                          <<PaymentOp(Asset4("ABCD", ASSET_ISSUER), <<>>, "GB", 5)>>)>>)>>],
    \* a transaction set whose ledger is not in the ledger file; nothing matches
    [ledgers |-> <<Ledger(100, 1000)>>,
     transactions |-> <<Entry(101, <<Tx("h2", "GA", None, <<OtherOp(<<>>)>>)>>)>>],
    \* a transaction set whose ledger is not in the ledger file; a matching trust change
    [ledgers |-> <<Ledger(100, 1000)>>,
     transactions |-> <<Entry(100, <<Tx("h3", "GA", PyStr(<<"m", "3">>),
                          <<PaymentOp(Asset4("ABCD", ASSET_ISSUER), <<"GC">>, "GB", 7)>>)>>),
                        Entry(101, <<Tx("h4", "GB", None,
                          <<ChangeTrustOp(Asset4("ABCD", ASSET_ISSUER), <<>>)>>)>>)>>],
    \* two ledgers, operations of every kind, with and without source override
    [ledgers |-> <<Ledger(100, 1000), Ledger(101, 1001)>>,
     transactions |-> <<Entry(100, <<Tx("h5", "GA", PyStr(<<"h", "i">>),
                          <<PaymentOp(Asset4("ABCD", ASSET_ISSUER), <<"GC">>, "GB", 3),
                            ChangeTrustOp(Asset4("ABCD", ASSET_ISSUER), <<>>),
                            OtherOp(<<"GC">>),
                            PaymentOp(Asset4("ABCD", "GOTHER"), <<>>, "GB", 4),
                            PaymentOp(Asset4("KIN", ASSET_ISSUER), <<>>, "GB", 2)>>)>>),
                        Entry(101, <<Tx("h6", "GB", None,
                          <<ChangeTrustOp(Asset12("ABCDE", ASSET_ISSUER), <<"GA">>),
                            PaymentOp(NativeAsset, <<>>, "GA", 9),
                            PaymentOp(Asset4("ABCD", ASSET_ISSUER), <<>>, "GC", 1)>>)>>)>>],
    \* one matching payment of a transaction whose memo text holds two single quotes
    [ledgers |-> <<Ledger(100, 1000)>>,
     transactions |-> <<Entry(100, <<Tx("h7", "GA", PyStr(<<"a", "'", "'", "b">>),
                          <<PaymentOp(Asset4("ABCD", ASSET_ISSUER), <<>>, "GB", 6)>>)>>)>>]
}

\* {ledger['header']['ledgerSeq']: ledger['header']['scpValue']['closeTime'] for ledger in ledgers}
get_ledgers_dictionary(ledgers) ==
    [s \in {ledgers[i].ledgerSeq : i \in 1..Len(ledgers)} |->
        LET last == CHOOSE i \in 1..Len(ledgers) :
                        /\ ledgers[i].ledgerSeq = s
                        /\ \A j \in (i + 1)..Len(ledgers) : ledgers[j].ledgerSeq # s
        IN  ledgers[last].closeTime]

\* ledgers_dictionary.get(key)
DictGet(dict, key) == IF key \in DOMAIN dict THEN PyInt(dict[key]) ELSE None

-----------------------------------------------------------------------------
(* write_to_postgres: projection of the decoded operations to statements *)

KeyError == [t |-> "KeyError"]

\* asset[key] on the decoded asset union: every arm but the asset's own is None
AssetArm(asset, key) ==
    IF key \notin {"alphaNum4", "alphaNum12"} THEN KeyError
    ELSE IF asset.type = key THEN [assetCode |-> asset.assetCode, issuer |-> asset.issuer]
    ELSE None

\* the three-part condition of lines 109-111 / 129-131, evaluated left to right
AssetMatches(arm) ==
    /\ arm # None
    /\ arm.assetCode = ASSET_CODE
    /\ arm.issuer = ASSET_ISSUER

\* the source override of the operation ignored
SourceOfTx(tx, op) == tx.sourceAccount

\* source = tx source, overridden by operation['sourceAccount'][0] when it exists
SourceOf(tx, op) ==
    IF Len(op.sourceAccount) >= 1 THEN op.sourceAccount[1] ELSE tx.sourceAccount

\* "'" + memo + "'" if memo is not None else 'NULL'
SqlMemo(memo) == IF memo # None THEN SqlText(memo.v) ELSE SqlNull

\* '{}'.format(timestamp) inside to_timestamp(...)
SqlTimestamp(timestamp) ==
    IF timestamp = None THEN SqlIdentifier("None") ELSE SqlNumber(timestamp.v)

Raise(what) == [raise |-> what]
Insert(table, values) == [table |-> table, values |-> values]

\* what one operation of a transaction makes write_to_postgres do
OpStatements(timestamp, tx, op) ==
    IF op.type = 1 THEN
        LET arm == AssetArm(op.asset, ASSET_TYPE) IN
        IF arm = KeyError THEN <<Raise("KeyError")>>
        ELSE IF AssetMatches(arm) THEN
            <<Insert("payments",
                     [source |-> SourceOf(tx, op), destination |-> op.destination,
                      amount |-> op.amount, memo |-> SqlMemo(tx.memo),
                      tx_hash |-> tx.hash, closed_at |-> SqlTimestamp(timestamp)])>>
        ELSE <<>>
    ELSE IF op.type = 6 THEN
        LET arm == AssetArm(op.asset, ASSET_TYPE) IN
        IF arm = KeyError THEN <<Raise("KeyError")>>
        ELSE IF AssetMatches(arm) THEN
            <<Insert("trustlines",
                     [source |-> SourceOf(tx, op), memo |-> SqlMemo(tx.memo),
                      tx_hash |-> tx.hash, closed_at |-> SqlTimestamp(timestamp)])>>
        ELSE <<>>
    ELSE <<>>

RECURSIVE FlattenSeq(_)
FlattenSeq(ss) == IF ss = <<>> THEN <<>> ELSE Head(ss) \o FlattenSeq(Tail(ss))

TxStatements(timestamp, tx) ==
    FlattenSeq([o \in 1..Len(tx.operations) |-> OpStatements(timestamp, tx, tx.operations[o])])

EntryStatements(entry, dict) ==
    LET timestamp == DictGet(dict, entry.ledgerSeq)
    IN  FlattenSeq([t \in 1..Len(entry.txs) |-> TxStatements(timestamp, entry.txs[t])])

\* the statements of the three nested loops of lines 98-141, in order
Statements(entries, dict) ==
    FlattenSeq([e \in 1..Len(entries) |-> EntryStatements(entries[e], dict)])

\* the text between the quotes that format() puts around a value is a
\* string literal for the server: a quote in it must be doubled
RECURSIVE WellQuoted(_)
WellQuoted(s) ==
    IF s = <<>> THEN TRUE
    ELSE IF s[1] # "'" THEN WellQuoted(Tail(s))
    ELSE IF Len(s) >= 2 /\ s[2] = "'" THEN WellQuoted(SubSeq(s, 3, Len(s)))
    ELSE FALSE

\* the value the server reads from a well-formed literal: '' is one quote
RECURSIVE Unquote(_)
Unquote(s) ==
    IF s = <<>> THEN <<>>
    ELSE IF s[1] # "'" THEN <<s[1]>> \o Unquote(Tail(s))
    ELSE <<"'">> \o Unquote(SubSeq(s, 3, Len(s)))

\* the value of a column as the server stores it
Stored(value) == IF value.t = "text" THEN SqlText(Unquote(value.v)) ELSE value

\* PostgreSQL rejects an INSERT whose to_timestamp argument is not a number
\* (the text "None" is read as a column name)
\* or whose memo literal is malformed
Rejected(stmt) ==
    \/ stmt.values.closed_at.t # "number"
    \/ stmt.values.memo.t = "text" /\ ~WellQuoted(stmt.values.memo.v)

Fails(stmt) == IF "raise" \in DOMAIN stmt THEN TRUE ELSE Rejected(stmt)

\* index of the first statement that raises, 0 when none does
FirstFailure(stmts) ==
    IF \E i \in 1..Len(stmts) : Fails(stmts[i])
    THEN CHOOSE i \in 1..Len(stmts) : Fails(stmts[i]) /\ \A j \in 1..(i - 1) : ~Fails(stmts[j])
    ELSE 0

\* the statements executed before the first failure
Executed(stmts) ==
    IF FirstFailure(stmts) = 0 THEN stmts ELSE SubSeq(stmts, 1, FirstFailure(stmts) - 1)

RowsOf(stmts, table, wid) ==
    LET sel == SelectSeq(stmts, LAMBDA st : IF "table" \in DOMAIN st THEN st.table = table ELSE FALSE)
    IN  [i \in 1..Len(sel) |->
            [v |-> [sel[i].values EXCEPT !.memo = Stored(@)], wid |-> wid]]

-----------------------------------------------------------------------------
(* The database connection: psycopg2 opens a transaction at the first      *)
(* execute and makes its statements durable at conn.commit(); a connection *)
(* that is lost takes its open transaction with it.                        *)

NoUpdate == <<>>

EmptyConn == [payments |-> <<>>, trustlines |-> <<>>, lastfile |-> NoUpdate, wid |-> 0, file |-> <<>>]

\* cur.execute of the INSERT statements of one write_to_postgres call, autocommit on
ExecInsertsAutocommit(st, stmts, wid) ==
    [db |-> [st.db EXCEPT !.payments = @ \o RowsOf(stmts, "payments", wid),
                          !.trustlines = @ \o RowsOf(stmts, "trustlines", wid)],
     conn |-> [st.conn EXCEPT !.wid = wid]]

\* cur.execute of the INSERT statements of one write_to_postgres call
ExecInserts(st, stmts, wid) ==
    [db |-> st.db,
     conn |-> [st.conn EXCEPT !.payments = @ \o RowsOf(stmts, "payments", wid),
                              !.trustlines = @ \o RowsOf(stmts, "trustlines", wid),
                              !.wid = wid]]

\* the UPDATE storing the name of the next file instead of the one just written
ExecUpdateLastfileNext(c, file_name) == [c EXCEPT !.lastfile = get_new_file_sequence(file_name)]

\* the UPDATE left out when the file gave no row
ExecUpdateLastfileIfRows(c, file_name) ==
    IF c.payments = <<>> /\ c.trustlines = <<>> THEN c ELSE [c EXCEPT !.lastfile = file_name]

\* the UPDATE storing the first file of the archive
ExecUpdateLastfileZero(c, file_name) == [c EXCEPT !.lastfile = Zeros(WIDTH)]

\* cur.execute("UPDATE lastfile SET name = '{}'".format(file_name))
ExecUpdateLastfile(c, file_name) == [c EXCEPT !.lastfile = file_name]

\* conn.commit()
Commit(d, c) ==
    [lastfile |-> IF c.lastfile = NoUpdate THEN d.lastfile ELSE c.lastfile,
     payments |-> d.payments \o c.payments,
     trustlines |-> d.trustlines \o c.trustlines,
     log |-> IF c.lastfile = NoUpdate THEN d.log
             ELSE Append(d.log, [wid |-> c.wid, file |-> c.file, ckpt |-> c.lastfile])]

-----------------------------------------------------------------------------
(* download_file: the object key of a file (lines 64-68, 73) *)

LedgerChars == <<"l", "e", "d", "g", "e", "r">>
TransactionsChars == <<"t", "r", "a", "n", "s", "a", "c", "t", "i", "o", "n", "s">>
SuffixChars == <<".", "x", "d", "r", ".", "g", "z">>

\* CORE_DIRECTORY when the environment does not set it (line 32)
CORE_DIRECTORY == <<>>

\* 'ledger-' + file_sequence, 'transactions-' + file_sequence
FileName(kind, sequence) ==
    (IF kind = "ledger" THEN LedgerChars ELSE TransactionsChars) \o <<"-">> \o sequence

\* sub in s
Contains(s, sub) ==
    \E i \in 1..(Len(s) - Len(sub) + 1) : SubSeq(s, i, i + Len(sub) - 1) = sub

\* s.split('-'): the fields between the dashes
RECURSIVE SplitDash(_)
SplitDash(s) ==
    IF \E i \in 1..Len(s) : s[i] = "-"
    THEN LET d == CHOOSE i \in 1..Len(s) : s[i] = "-" /\ \A j \in 1..(i - 1) : s[j] # "-"
         IN  <<SubSeq(s, 1, d - 1)>> \o SplitDash(SubSeq(s, d + 1, Len(s)))
    ELSE <<s>>

\* '/'.join(n[i:i + 2] for i in range(0, len(n), 2))
RECURSIVE JoinPairs(_)
JoinPairs(n) ==
    IF Len(n) <= 2 THEN n
    ELSE SubSeq(n, 1, 2) \o <<"/">> \o JoinPairs(SubSeq(n, 3, Len(n)))

\* s[:k]
Take(s, k) == SubSeq(s, 1, IF k < Len(s) THEN k ELSE Len(s))

\* the directory cut one character short: no slash after the third group
sub_directory_short(file_name) ==
    LET file_number == SplitDash(file_name)[2]
    IN  (IF Contains(file_name, LedgerChars)
         THEN LedgerChars \o <<"/">> ELSE TransactionsChars \o <<"/">>)
        \o Take(JoinPairs(file_number), SLICE - 1)

\* lines 64-68
sub_directory(file_name) ==
    LET file_number == SplitDash(file_name)[2]
        joined == JoinPairs(file_number)
        cut == Take(joined, SLICE)
    IN  (IF Contains(file_name, LedgerChars)
         THEN LedgerChars \o <<"/">> ELSE TransactionsChars \o <<"/">>) \o cut

\* line 73: CORE_DIRECTORY + sub_directory + file_name + '.xdr.gz'
ObjectKey(file_name) ==
    CORE_DIRECTORY \o sub_directory(file_name) \o file_name \o SuffixChars

-----------------------------------------------------------------------------
(* download_file: the retry policy *)

\* what one s3.download_file call may do: succeed, or raise ClientError with this code
FetchOutcomes == {"ok", "404", "403", "AccessDenied"}

\* int(e.response['Error']['Code']) raises ValueError unless the code is a number
IsNumeric(code) == code \in {"404", "403"}

\* int(e.response['Error']['Code'])
CodeInt(code) ==
    CASE code = "404" -> 404
      [] code = "403" -> 403

\* the retry limit compared one too high: the last failure is not raised
RetryLimitReachedLate(a) == a = MAX_RETRIES + 1

\* line 79: if attempt == MAX_RETRIES
RetryLimitReached(a) == a = MAX_RETRIES

\* the backoff taken on the wrong error code
ShouldSleepOnOther(error_code) == error_code # 404

\* line 85: if error_code == 404
ShouldSleep(error_code) == error_code = 404

FreshDl(kind) ==
    [kind |-> kind, outcomes |-> <<>>, sleeps |-> 0, slept |-> 0, result |-> "running",
     file |-> <<>>, key |-> <<>>]

\* a call of download_file for this file of this sequence
StartDl(kind, sequence) ==
    [FreshDl(kind) EXCEPT !.file = sequence, !.key = ObjectKey(FileName(kind, sequence))]

-----------------------------------------------------------------------------
(* The process *)

StartFiles == {
    <<"0", "0", "0", "0", "0", "0", "0", "0">>,
    <<"0", "0", "4", "c", "9", "3", "b", "f">>,
    <<"f", "f", "f", "f", "f", "f", "c", "0">>
}

NoExit == [cause |-> "none", at |-> "none", file |-> <<>>]

Init ==
    /\ MAX_RETRIES \in 0..MaxRetriesBound
    /\ ASSET_CODE \in AssetCodes
    /\ \E start \in StartFiles :
          db = [lastfile |-> start, payments |-> <<>>, trustlines |-> <<>>, log |-> <<>>]
    /\ conn = EmptyConn
    /\ archive = <<>>
    /\ staged = {}
    /\ pc = "init"
    /\ file_sequence = <<>>
    /\ attempt = 0
    /\ ledgers_dictionary = <<>>
    /\ transactions = <<>>
    /\ dl = FreshDl("none")
    /\ run = [restarts |-> 0, writes |-> 0, processed |-> <<>>, exit |-> NoExit,
              cycleStart |-> db, logAtStart |-> 0, first |-> db.lastfile, prev |-> "none",
              reads |-> 0, origin |-> db.lastfile, done |-> {}]

\* the process ends on an uncaught exception or a kill: its memory and its
\* connection (with the open transaction) are gone
Exit(cause) ==
    /\ pc' = "dead"
    /\ conn' = EmptyConn
    /\ file_sequence' = <<>>
    /\ attempt' = 0
    /\ ledgers_dictionary' = <<>>
    /\ transactions' = <<>>
    /\ run' = [run EXCEPT !.exit = [cause |-> cause, at |-> pc, file |-> file_sequence]]

\* the process resuming with the file after the stored checkpoint
GetLastFileSequenceNext ==
    /\ pc = "init"
    /\ file_sequence' = get_new_file_sequence(db.lastfile)
    /\ attempt' = 0
    /\ pc' = "dl_ledger"
    /\ run' = [run EXCEPT !.cycleStart = db, !.logAtStart = Len(db.log),
                          !.first = get_new_file_sequence(db.lastfile),
                          !.reads = @ + 1, !.done = {}]
    /\ UNCHANGED <<MAX_RETRIES, ASSET_CODE, db, conn, archive, staged,
                   ledgers_dictionary, transactions, dl>>

\* main(), lines 179-182
GetLastFileSequence ==
    /\ pc = "init"
    /\ file_sequence' = db.lastfile
    /\ attempt' = 0
    /\ pc' = "dl_ledger"
    /\ run' = [run EXCEPT !.cycleStart = db, !.logAtStart = Len(db.log), !.first = db.lastfile,
                          !.reads = @ + 1, !.done = {}]
    /\ UNCHANGED <<MAX_RETRIES, ASSET_CODE, db, conn, archive, staged,
                   ledgers_dictionary, transactions, dl>>

\* one iteration of the loop of download_file (lines 70-87)
DownloadAttempt(kind, next) ==
    /\ pc = "dl_" \o kind
    /\ \E outcome \in FetchOutcomes :
        LET prev == IF attempt = 0 THEN StartDl(kind, file_sequence) ELSE dl
            seen == [prev EXCEPT !.outcomes = Append(@, outcome)]
        IN
        IF outcome = "ok" THEN
            /\ staged' = staged \cup {<<kind, file_sequence>>}
            /\ dl' = [seen EXCEPT !.result = "ok"]
            /\ attempt' = 0
            /\ pc' = next
            /\ run' = [run EXCEPT !.done = @ \cup {kind}]
            /\ UNCHANGED <<conn, file_sequence, ledgers_dictionary, transactions>>
        ELSE IF RetryLimitReached(attempt) \/ ~IsNumeric(outcome) THEN
            /\ dl' = [seen EXCEPT !.result = "raised"]
            /\ Exit("fetch")
            /\ UNCHANGED staged
        ELSE
            /\ dl' = IF ShouldSleep(CodeInt(outcome))
                     THEN [seen EXCEPT !.sleeps = @ + 1, !.slept = @ + BACKOFF]
                     ELSE seen
            /\ IF attempt + 1 <= MAX_RETRIES
               THEN /\ attempt' = attempt + 1
                    /\ pc' = pc
               ELSE \* range(MAX_RETRIES + 1) is used up: the function returns
                    /\ attempt' = 0
                    /\ pc' = next
            /\ UNCHANGED <<staged, conn, run, file_sequence, ledgers_dictionary, transactions>>
    /\ UNCHANGED <<MAX_RETRIES, ASSET_CODE, db, archive>>

\* main(), line 186
DownloadLedger == DownloadAttempt("ledger", "dl_transactions")

\* main(), line 187
DownloadTransactions == DownloadAttempt("transactions", "parse")

StagedPair == {<<"ledger", file_sequence>>, <<"transactions", file_sequence>>}

\* main(), lines 190-200: parse both files, build the dictionary, remove the files
Decode ==
    /\ pc = "parse"
    /\ StagedPair \subseteq staged
    /\ \E content \in ArchiveFiles :
        /\ file_sequence \in DOMAIN archive => content = archive[file_sequence]
        /\ archive' = IF file_sequence \in DOMAIN archive THEN archive
                      ELSE archive @@ (file_sequence :> content)
        /\ transactions' = content.transactions
        /\ ledgers_dictionary' = get_ledgers_dictionary(content.ledgers)
    /\ staged' = staged \ StagedPair
    /\ pc' = "write_rows"
    /\ dl' = FreshDl("none")
    /\ run' = [run EXCEPT !.done = @ \cup {"decode"}]
    /\ UNCHANGED <<MAX_RETRIES, ASSET_CODE, db, conn, file_sequence, attempt>>

\* a decode error that marks the file as done before the process ends
DecodeFailCheckpointed ==
    /\ pc = "parse"
    /\ db' = Commit(db, ExecUpdateLastfile([conn EXCEPT !.file = file_sequence], file_sequence))
    /\ Exit("decode")
    /\ dl' = FreshDl("none")
    /\ UNCHANGED <<MAX_RETRIES, ASSET_CODE, archive, staged>>

\* parser.parse raises: a file is missing or its bytes are malformed
DecodeFail ==
    /\ pc = "parse"
    /\ Exit("decode")
    /\ dl' = FreshDl("none")
    /\ UNCHANGED <<MAX_RETRIES, ASSET_CODE, db, archive, staged>>

\* write_to_postgres, lines 98-141: the statements up to the first one that raises
InsertRows ==
    /\ pc = "write_rows"
    /\ \E wid \in {run.writes + 1} :
       \E stmts \in {Statements(transactions, ledgers_dictionary)} :
       \E executed \in {Executed(stmts)} :
       \E st \in {ExecInserts([db |-> db, conn |-> conn], executed, wid)} :
       /\ db' = st.db
       /\ IF FirstFailure(stmts) = 0
          THEN /\ conn' = [st.conn EXCEPT !.file = file_sequence]
               /\ pc' = "write_ckpt"
               /\ run' = [run EXCEPT !.writes = wid]
               /\ UNCHANGED <<file_sequence, attempt, ledgers_dictionary, transactions>>
          ELSE /\ pc' = "dead"
               /\ conn' = EmptyConn
               /\ file_sequence' = <<>>
               /\ attempt' = 0
               /\ ledgers_dictionary' = <<>>
               /\ transactions' = <<>>
               /\ run' = [run EXCEPT !.writes = wid,
                                     !.exit = [cause |-> "insert", at |-> pc,
                                               file |-> file_sequence]]
    /\ UNCHANGED <<MAX_RETRIES, ASSET_CODE, archive, staged, dl>>

\* write_to_postgres, line 144
UpdateLastfile ==
    /\ pc = "write_ckpt"
    /\ conn' = ExecUpdateLastfile(conn, file_sequence)
    /\ pc' = "commit"
    /\ UNCHANGED <<MAX_RETRIES, ASSET_CODE, db, archive, staged, file_sequence, attempt,
                   ledgers_dictionary, transactions, dl, run>>

\* write_to_postgres returning without conn.commit()
CommitWriteSkipped ==
    /\ pc = "commit"
    /\ pc' = "advance"
    /\ run' = [run EXCEPT !.processed = Append(@, file_sequence), !.done = @ \cup {"commit"}]
    /\ UNCHANGED <<MAX_RETRIES, ASSET_CODE, db, conn, archive, staged, file_sequence, attempt,
                   ledgers_dictionary, transactions, dl>>

\* write_to_postgres, line 145
CommitWrite ==
    /\ pc = "commit"
    /\ db' = Commit(db, conn)
    /\ conn' = EmptyConn
    /\ pc' = "advance"
    /\ run' = [run EXCEPT !.processed = Append(@, file_sequence), !.done = @ \cup {"commit"}]
    /\ UNCHANGED <<MAX_RETRIES, ASSET_CODE, archive, staged, file_sequence, attempt,
                   ledgers_dictionary, transactions, dl>>

\* the database fails a statement or the commit of write_to_postgres
PersistFail ==
    /\ pc \in {"write_rows", "write_ckpt", "commit"}
    /\ Exit("persist")
    /\ UNCHANGED <<MAX_RETRIES, ASSET_CODE, db, archive, staged, dl>>

\* main(), line 206
Advance ==
    /\ pc = "advance"
    /\ run.writes < MaxCycles
    /\ file_sequence' = get_new_file_sequence(file_sequence)
    /\ attempt' = 0
    /\ pc' = "dl_ledger"
    /\ run' = [run EXCEPT !.cycleStart = db, !.done = {}]
    /\ UNCHANGED <<MAX_RETRIES, ASSET_CODE, db, conn, archive, staged,
                   ledgers_dictionary, transactions, dl>>

\* the process is killed (or the machine goes down) at any point
Crash ==
    /\ pc \notin {"init", "dead"}
    /\ Exit("crash")
    /\ dl' = FreshDl("none")
    /\ UNCHANGED <<MAX_RETRIES, ASSET_CODE, db, archive, staged>>

\* the supervisor starts the process again: main() from its first line
Restart ==
    /\ pc = "dead"
    /\ run.restarts < MaxRestarts
    /\ run.writes < MaxCycles
    /\ pc' = "init"
    /\ dl' = FreshDl("none")
    /\ run' = [run EXCEPT !.restarts = @ + 1, !.processed = <<>>, !.exit = NoExit,
                          !.reads = 0,
                          !.prev = IF run.processed = <<>> THEN "no_checkpoint"
                                   ELSE IF run.exit.at = "advance" THEN "before_advance"
                                   ELSE "after_advance"]
    /\ UNCHANGED <<MAX_RETRIES, ASSET_CODE, db, conn, archive, staged, file_sequence,
                   attempt, ledgers_dictionary, transactions>>

Next ==
    \/ GetLastFileSequence
    \/ DownloadLedger
    \/ DownloadTransactions
    \/ Decode
    \/ DecodeFail
    \/ InsertRows
    \/ UpdateLastfile
    \/ CommitWrite
    \/ PersistFail
    \/ Advance
    \/ Crash
    \/ Restart

Spec == Init /\ [][Next]_vars

\* the process left to itself: nothing kills it and nothing starts it again
LiveNext ==
    \/ GetLastFileSequence
    \/ DownloadLedger
    \/ DownloadTransactions
    \/ Decode
    \/ DecodeFail
    \/ InsertRows
    \/ UpdateLastfile
    \/ CommitWrite
    \/ PersistFail
    \/ Advance

\* main() is one thread that runs its next statement whenever it has one
LiveSpec == Init /\ [][LiveNext]_vars /\ WF_vars(LiveNext)

-----------------------------------------------------------------------------
(* Properties *)

\* the rows of a table written by the write_to_postgres call wid, in order
DurableRows(table, wid) == SelectSeq(db[table], LAMBDA r : r.wid = wid)

\* the rows write_to_postgres projects from the archive files of file x
ProjectedRows(x, table, wid) ==
    RowsOf(Statements(archive[x].transactions, get_ledgers_dictionary(archive[x].ledgers)),
           table, wid)

CommittedWrites == {db.log[i].wid : i \in 1..Len(db.log)}

AllDurableRows ==
    {db.payments[i] : i \in 1..Len(db.payments)} \cup
    {db.trustlines[i] : i \in 1..Len(db.trustlines)}

\* C1: the row inserts and the checkpoint update of one file are one unit of
\* work: a write whose checkpoint update is durable has every row projected
\* from its file durable, and no row is durable whose write's checkpoint
\* update is not -- in every state, also after a failure or a crash inside
\* write_to_postgres.
C1_UnitOfWork ==
    /\ \A i \in 1..Len(db.log) :
          /\ DurableRows("payments", db.log[i].wid)
                = ProjectedRows(db.log[i].file, "payments", db.log[i].wid)
          /\ DurableRows("trustlines", db.log[i].wid)
                = ProjectedRows(db.log[i].file, "trustlines", db.log[i].wid)
    /\ \A r \in AllDurableRows : r.wid \in CommittedWrites

\* C1 witness: the process ended inside write_to_postgres at a statement that
\* failed after an earlier statement of the same file was executed, while the
\* rows of an earlier file are durable.
C1_Witness ==
    /\ pc = "dead"
    /\ run.exit.cause = "insert"
    /\ run.exit.file \in DOMAIN archive
    /\ FirstFailure(Statements(archive[run.exit.file].transactions,
                               get_ledgers_dictionary(archive[run.exit.file].ledgers))) > 1
    /\ Len(db.payments) > 0

Untagged(rows) == [i \in 1..Len(rows) |-> rows[i].v]

\* C2: after a restart that follows a committed checkpoint write for file X,
\* the process reads checkpoint X, its first cycle works on X, and when that
\* cycle commits, the rows of X are in the tables a second time.
C2_ReprocessAfterRestart ==
    (run.restarts > 0 /\ run.logAtStart > 0 /\ pc \notin {"init"}) =>
        LET x == db.log[run.logAtStart].file
            before == db.log[run.logAtStart].wid
        IN  /\ run.first = x
            /\ (run.processed = <<>> /\ pc # "dead") => file_sequence = x
            /\ run.processed # <<>> =>
                  LET again == db.log[run.logAtStart + 1] IN
                  /\ run.processed[1] = x
                  /\ again.file = x
                  /\ again.wid # before
                  /\ Untagged(DurableRows("payments", again.wid))
                        = Untagged(DurableRows("payments", before))
                  /\ Untagged(DurableRows("trustlines", again.wid))
                        = Untagged(DurableRows("trustlines", before))

\* C2 witness: the process died right after the commit of X, before the
\* in-memory advance, was restarted, and committed X again with at least one row.
C2_Witness ==
    /\ run.restarts > 0
    /\ run.prev = "before_advance"
    /\ run.processed # <<>>
    /\ Len(DurableRows("payments", db.log[run.logAtStart + 1].wid)) > 0

AllNotFound(s) == \A i \in 1..Len(s) : s[i] = "404"

\* C3: one call of download_file makes at most MAX_RETRIES + 1 fetch
\* attempts; when every attempt returns "not found" the call raises, after
\* exactly MAX_RETRIES + 1 attempts, and the process ends with a fetch failure.
C3_BoundedAttempts ==
    /\ Len(dl.outcomes) <= MAX_RETRIES + 1
    /\ (dl.result = "raised" /\ AllNotFound(dl.outcomes))
          => Len(dl.outcomes) = MAX_RETRIES + 1
    /\ (Len(dl.outcomes) = MAX_RETRIES + 1 /\ AllNotFound(dl.outcomes))
          => (dl.result = "raised" /\ pc = "dead" /\ run.exit.cause = "fetch")

\* C3 witness: MAX_RETRIES = 1, "not found" on both attempts, the call raised.
C3_Witness ==
    /\ MAX_RETRIES = 1
    /\ dl.outcomes = <<"404", "404">>
    /\ dl.result = "raised"

\* C4: "not found" on the first k attempts (k <= MAX_RETRIES) is followed by
\* another attempt, and when attempt k + 1 succeeds the call succeeds having
\* slept 180 seconds exactly k times: once after each "not found", never
\* after the successful attempt.
C4_BackoffPerNotFound ==
    /\ (dl.result = "ok" /\ AllNotFound(SubSeq(dl.outcomes, 1, Len(dl.outcomes) - 1)))
          => /\ dl.sleeps = Len(dl.outcomes) - 1
             /\ dl.slept = 180 * (Len(dl.outcomes) - 1)
             /\ pc # "dead"
    /\ (Len(dl.outcomes) >= 1 /\ Len(dl.outcomes) <= MAX_RETRIES /\ AllNotFound(dl.outcomes))
          => /\ dl.result = "running"
             /\ pc = "dl_" \o dl.kind
             /\ dl.sleeps = Len(dl.outcomes)
             /\ dl.slept = 180 * Len(dl.outcomes)

\* C4 witness: MAX_RETRIES = 2, "not found" twice, success on attempt 3.
C4_Witness ==
    /\ MAX_RETRIES = 2
    /\ dl.outcomes = <<"404", "404", "ok">>
    /\ dl.result = "ok"
    /\ dl.sleeps = 2

\* C5: a fetch attempt that fails with anything but "not found" is the last
\* attempt of its download_file call: the call raises at once.
C5_AbortOnOtherFailure ==
    \A i \in 1..Len(dl.outcomes) :
        dl.outcomes[i] \notin {"ok", "404"} => (i = Len(dl.outcomes) /\ dl.result = "raised")

IsFileId(s) == Len(s) = 8 /\ \A i \in 1..Len(s) : s[i] \in HexCharSet

\* C7: the file sequence held by the loop is exactly 8 lowercase hex digits
\* after any number of advances, also after the advance from "ffffffc0".
C7_FileIdWidth == pc \notin {"init", "dead"} => IsFileId(file_sequence)

\* C8: within one run the k-th file persisted has the numeric id
\* start + 64 * (k - 1), the ids persisted increase strictly, the cycle in
\* progress works on start + 64 * (files persisted), and the name after
\* "00000000" is "00000040".
C8_FixedStepOrder ==
    /\ \A k \in 1..Len(run.processed) :
          IntFromHex(run.processed[k]) = BigAdd(IntFromHex(run.first), 64 * (k - 1))
    /\ \A k \in 1..(Len(run.processed) - 1) :
          BigLess(IntFromHex(run.processed[k]), IntFromHex(run.processed[k + 1]))
    /\ pc \in {"dl_ledger", "dl_transactions", "parse", "write_rows", "write_ckpt", "commit"}
          => IntFromHex(file_sequence)
                = BigAdd(IntFromHex(run.first), 64 * Len(run.processed))
    /\ get_new_file_sequence(<<"0", "0", "0", "0", "0", "0", "0", "0">>)
          = <<"0", "0", "0", "0", "0", "0", "4", "0">>

\* C8 witness: a run that started at "00000000" has persisted two files.
C8_Witness ==
    run.processed = << <<"0", "0", "0", "0", "0", "0", "0", "0">>,
                       <<"0", "0", "0", "0", "0", "0", "4", "0">> >>

\* C9: the derived asset type is alphaNum4 for a configured asset code of
\* length at most 4 and alphaNum12 for one of length 5 to 12.
C9_AssetTypeDerivation ==
    /\ Len(ASSET_CODE) <= 4 => ASSET_TYPE = "alphaNum4"
    /\ Len(ASSET_CODE) \in 5..12 => ASSET_TYPE = "alphaNum12"

\* a transaction of these files has a ledger sequence without a close time
Unresolved(entries, dict) ==
    \E e \in 1..Len(entries) : entries[e].txs # <<>> /\ entries[e].ledgerSeq \notin DOMAIN dict

\* C10: a transaction whose ledger sequence has no entry in the close-time
\* mapping of its cycle is fatal: write_to_postgres does not get past its
\* inserts, no checkpoint is committed for such a file, and no row with an
\* unresolved close time is durable -- matching operation or not.
C10_MissingCloseTimeFatal ==
    /\ pc \in {"write_ckpt", "commit", "advance"}
          => ~Unresolved(transactions, ledgers_dictionary)
    /\ \A i \in 1..Len(db.log) :
          ~Unresolved(archive[db.log[i].file].transactions,
                      get_ledgers_dictionary(archive[db.log[i].file].ledgers))
    /\ \A r \in AllDurableRows : r.v.closed_at.t = "number"

\* the asset type the configured code stands for: short or long code encoding
IntendedAssetType == IF Len(ASSET_CODE) <= 4 THEN "alphaNum4" ELSE "alphaNum12"

\* the asset of an operation is the configured one: code, issuer and type
IsTargetAsset(asset) ==
    /\ asset.type = IntendedAssetType
    /\ asset.assetCode = ASSET_CODE
    /\ asset.issuer = ASSET_ISSUER

\* the close time of the ledger with this sequence in a ledger file
CloseTimeOf(ledgers, seq) ==
    IF \E i \in 1..Len(ledgers) : ledgers[i].ledgerSeq = seq
    THEN SqlNumber(ledgers[CHOOSE i \in 1..Len(ledgers) : ledgers[i].ledgerSeq = seq].closeTime)
    ELSE [t |-> "missing"]

\* one [tx_hash, closed_at] per operation of the given type on the target
\* asset, in file order
IntendedRows(content, optype) ==
    FlattenSeq([e \in 1..Len(content.transactions) |->
        LET entry == content.transactions[e] IN
        FlattenSeq([t \in 1..Len(entry.txs) |->
            LET tx == entry.txs[t]
                ops == SelectSeq(tx.operations,
                                 LAMBDA op : op.type = optype /\ IsTargetAsset(op.asset))
            IN  [o \in 1..Len(ops) |->
                    [tx_hash |-> tx.hash,
                     closed_at |-> CloseTimeOf(content.ledgers, entry.ledgerSeq)]]])])

HashAndTime(rows) ==
    [i \in 1..Len(rows) |-> [tx_hash |-> rows[i].v.tx_hash, closed_at |-> rows[i].v.closed_at]]

ContentUnresolved(content) ==
    Unresolved(content.transactions, get_ledgers_dictionary(content.ledgers))

\* C11: for one file the rows persisted are exactly one payments row per
\* Payment operation and one trustlines row per TrustChange operation on the
\* configured asset (code, issuer, type), none for any other operation, each
\* with the close time of its transaction's ledger: the inserts of a file
\* whose close times all resolve do not fail, and the rows written and
\* committed for a file are the intended ones.
C11_RowsPerMatchingOperation ==
    /\ (pc = "dead" /\ run.exit.cause = "insert")
          => ContentUnresolved(archive[run.exit.file])
    /\ pc \in {"write_ckpt", "commit"}
          => /\ HashAndTime(conn.payments) = IntendedRows(archive[file_sequence], 1)
             /\ HashAndTime(conn.trustlines) = IntendedRows(archive[file_sequence], 6)
    /\ \A i \in 1..Len(db.log) :
          /\ HashAndTime(DurableRows("payments", db.log[i].wid))
                = IntendedRows(archive[db.log[i].file], 1)
          /\ HashAndTime(DurableRows("trustlines", db.log[i].wid))
                = IntendedRows(archive[db.log[i].file], 6)

\* one [tx_hash, source] per operation of the given type on the target asset,
\* in file order: the operation's own source when it has one, else the
\* transaction's
IntendedSources(content, optype) ==
    FlattenSeq([e \in 1..Len(content.transactions) |->
        LET entry == content.transactions[e] IN
        FlattenSeq([t \in 1..Len(entry.txs) |->
            LET tx == entry.txs[t]
                ops == SelectSeq(tx.operations,
                                 LAMBDA op : op.type = optype /\ IsTargetAsset(op.asset))
            IN  [o \in 1..Len(ops) |->
                    [tx_hash |-> tx.hash,
                     source |-> IF ops[o].sourceAccount # <<>>
                                THEN ops[o].sourceAccount[1]
                                ELSE tx.sourceAccount]]])])

SourcesAsIntended(rows, intended) ==
    \A k \in 1..Len(rows) :
        /\ k <= Len(intended)
        /\ rows[k].v.tx_hash = intended[k].tx_hash
        /\ rows[k].v.source = intended[k].source

\* C12: the row of every matching Payment or TrustChange operation has the
\* operation's source override as source when the operation has one and the
\* transaction's source account otherwise, operation by operation; an
\* operation without override never makes the inserts fail.
C12_SourceOverride ==
    /\ pc \in {"write_ckpt", "commit"}
          => /\ SourcesAsIntended(conn.payments, IntendedSources(archive[file_sequence], 1))
             /\ SourcesAsIntended(conn.trustlines, IntendedSources(archive[file_sequence], 6))
    /\ \A i \in 1..Len(db.log) :
          /\ SourcesAsIntended(DurableRows("payments", db.log[i].wid),
                               IntendedSources(archive[db.log[i].file], 1))
          /\ SourcesAsIntended(DurableRows("trustlines", db.log[i].wid),
                               IntendedSources(archive[db.log[i].file], 6))
    /\ (pc = "dead" /\ run.exit.cause = "insert")
          => \/ ContentUnresolved(archive[run.exit.file])
             \/ ASSET_TYPE \notin {"alphaNum4", "alphaNum12"}

\* C12 witness: transaction h5 is durable with its payment under the
\* operation's override GC and its trust change, which has no override, under
\* the transaction's source GA; transaction h6's payment without override is
\* under GB.
C12_Witness ==
    /\ \E i \in 1..Len(db.payments) :
          db.payments[i].v.tx_hash = "h5" /\ db.payments[i].v.source = "GC"
    /\ \E i \in 1..Len(db.trustlines) :
          db.trustlines[i].v.tx_hash = "h5" /\ db.trustlines[i].v.source = "GA"
    /\ \E i \in 1..Len(db.payments) :
          db.payments[i].v.tx_hash = "h6" /\ db.payments[i].v.source = "GB"

\* C13: the stored checkpoint is read once per process start, before the
\* first fetch, and written once per processed file: a run that has completed
\* n cycles has committed n checkpoint writes, the i-th storing the file
\* sequence of the i-th processed file.
C13_CheckpointReadWriteCount ==
    /\ pc = "init" => run.reads = 0
    /\ pc # "init" => run.reads = 1
    /\ dl.outcomes # <<>> => run.reads = 1
    /\ pc # "init" =>
          /\ Len(db.log) - run.logAtStart = Len(run.processed)
          /\ \A i \in 1..Len(run.processed) :
                /\ db.log[run.logAtStart + i].ckpt = run.processed[i]
                /\ db.log[run.logAtStart + i].file = run.processed[i]

\* C13 witness: a first run that has completed two cycles, the second of
\* them for a file without rows.
C13_Witness ==
    /\ run.restarts = 0
    /\ Len(run.processed) = 2
    /\ DurableRows("payments", db.log[2].wid) = <<>>
    /\ DurableRows("trustlines", db.log[2].wid) = <<>>


-----------------------------------------------------------------------------
\* C14: each cycle passes through its steps in the fixed order: a transactions
\* fetch of file X is only attempted once the ledger fetch of X has succeeded
\* and its file is staged; rows of X are only executed on the connection once
\* both fetches and the decode of X have succeeded; the steps done in a cycle
\* are always a prefix of ledger, transactions, decode, commit; and a fetch of
\* a file other than the one the run started with is only attempted when the
\* durable checkpoint holds the file before it.
CycleSteps == <<"ledger", "transactions", "decode", "commit">>

C14_CycleOrder ==
    /\ \E n \in 0..Len(CycleSteps) : run.done = {CycleSteps[i] : i \in 1..n}
    /\ (dl.kind = "transactions" /\ dl.outcomes # <<>>) =>
          /\ "ledger" \in run.done
          /\ <<"ledger", dl.file>> \in staged
    /\ (pc \in {"write_rows", "write_ckpt", "commit"} \/ conn # EmptyConn) =>
          /\ {"ledger", "transactions", "decode"} \subseteq run.done
          /\ "commit" \notin run.done
    /\ (dl.outcomes # <<>> /\ dl.file # run.first) =>
          /\ dl.file = get_new_file_sequence(db.lastfile)
          /\ db.log # <<>>
          /\ db.log[Len(db.log)].file = db.lastfile

\* C14 witness: the transactions fetch of the second file of a run has
\* succeeded, after the first file's checkpoint was committed
C14_Witness ==
    /\ dl.kind = "transactions"
    /\ dl.result = "ok"
    /\ dl.file # run.first
    /\ run.done = {"ledger", "transactions"}
    /\ Len(run.processed) = 1


-----------------------------------------------------------------------------
\* the kind prefix of a call and the k-th 2-character group of an id
KindChars(kind) == IF kind = "ledger" THEN LedgerChars ELSE TransactionsChars
Group(id, k) == SubSeq(id, 2 * k - 1, 2 * k)

\* the file of the example, 004c93bf
ExampleFile == <<"0", "0", "4", "c", "9", "3", "b", "f">>

\* the directory a call of download_file computes for its file
DirOfCall == sub_directory(FileName(dl.kind, dl.file))

-----------------------------------------------------------------------------
\* the transactions of every archive file, and the one a row was made from
ArchiveTxs ==
    UNION {UNION {{c.transactions[e].txs[t] : t \in 1..Len(c.transactions[e].txs)}
                  : e \in 1..Len(c.transactions)} : c \in ArchiveFiles}

TxOfRow(row) == CHOOSE tx \in ArchiveTxs : tx.hash = row.v.tx_hash

\* C17 as stated: every durable row of a transaction whose memo text is null
\* has the null sentinel as memo, never a string value, and every durable row
\* of a transaction with a memo text has that text as memo.
C17_MemoPersisted ==
    \A row \in AllDurableRows :
        LET memo == TxOfRow(row).memo IN
        /\ memo = None => (row.v.memo = SqlNull /\ row.v.memo.t # "text")
        /\ memo # None => row.v.memo = SqlText(memo.v)


-----------------------------------------------------------------------------
\* the k-th file after the initial checkpoint, as a number
FileNumber(k) == BigAdd(IntFromHex(run.origin), STEP * k)

\* a write of this file is durable, with the rows projected from it
CommittedOnce(number) ==
    \E i \in 1..Len(db.log) :
        /\ IntFromHex(db.log[i].file) = number
        /\ DurableRows("payments", db.log[i].wid)
              = ProjectedRows(db.log[i].file, "payments", db.log[i].wid)
        /\ DurableRows("trustlines", db.log[i].wid)
              = ProjectedRows(db.log[i].file, "trustlines", db.log[i].wid)

\* the checkpoint is the n-th file after the initial one for some n, and each
\* of the files 0..n has been committed
CoveredUpToCheckpoint ==
    \E n \in 0..Len(db.log) :
        /\ IntFromHex(db.lastfile) = FileNumber(n)
        /\ \A k \in 0..n : CommittedOnce(FileNumber(k))

\* C18 as stated: whenever the durable checkpoint holds X, the rows of every
\* file start, start + 64, ..., X have been durably committed at least once.
C18_NoFileSkippedAsStated == CoveredUpToCheckpoint

\* C18: across cycles, fatal errors, crashes and restarts no file is skipped:
\* once the process has committed a checkpoint write, the rows of every file
\* start, start + 64, ..., X (X the durable checkpoint) have been durably
\* committed at least once; until then the checkpoint is the initial one and
\* no row is durable.
C18_NoFileSkipped ==
    /\ db.log # <<>> => CoveredUpToCheckpoint
    /\ db.log = <<>> => (db.lastfile = run.origin /\ AllDurableRows = {})

\* C18 witness: after a restart the checkpoint holds the second file and both
\* files have been committed
C18_Witness ==
    /\ run.restarts = 1
    /\ db.lastfile = get_new_file_sequence(run.origin)
    /\ Len(db.log) = 2

\* the checkpoint before the i-th committed write
CheckpointBefore(i) == IF i = 1 THEN run.origin ELSE db.log[i - 1].ckpt

\* C19: the numeric value of the durable checkpoint never decreases, and
\* each committed checkpoint write leaves it equal or raises it by exactly 64.
C19_CheckpointMonotone ==
    /\ db.lastfile = IF db.log = <<>> THEN run.origin ELSE db.log[Len(db.log)].ckpt
    /\ \A i \in 1..Len(db.log) :
          LET old == IntFromHex(CheckpointBefore(i))
              new == IntFromHex(db.log[i].ckpt)
          IN  /\ ~BigLess(new, old)
              /\ new = old \/ new = BigAdd(old, STEP)

\* C19 witness: a file committed again after a restart leaves the checkpoint
\* equal, a first write having left it at the initial value
C19_Witness ==
    /\ Len(db.log) = 2
    /\ db.log[1].ckpt = run.origin
    /\ db.log[2].ckpt = db.log[1].ckpt
    /\ run.restarts = 1


-----------------------------------------------------------------------------
\* C20 as stated: downloaded files are not retained: in every state outside
\* the retrieve and decode steps of a cycle (persisting, advancing, or
\* terminated for any reason, including a fatal fetch or decode error),
\* neither a staged ledger file nor a staged transactions file remains in
\* local storage.
C20_FilesNotRetained ==
    pc \in {"write_rows", "write_ckpt", "commit", "advance", "dead"} => staged = {}


-----------------------------------------------------------------------------
\* the process has stopped on a KeyError raised by asset[ASSET_TYPE] while
\* projecting the file: no statement was refused by the server
StoppedByKeyError ==
    /\ pc = "dead"
    /\ run.exit.cause = "insert"
    /\ \E stmts \in {Statements(archive[run.exit.file].transactions,
                                get_ledgers_dictionary(archive[run.exit.file].ledgers))} :
          "raise" \in DOMAIN stmts[FirstFailure(stmts)]

\* the process has stopped on a fetch out of its retry budget, a decode
\* error or a persistence error
StoppedByListedError == pc = "dead" /\ ~StoppedByKeyError

\* the k-th file after the initial checkpoint has been committed and stored
\* as the checkpoint
StoredAsCheckpoint(k) ==
    /\ Len(db.log) > k
    /\ IntFromHex(db.log[k + 1].ckpt) = FileNumber(k)
    /\ Len(db.log) = k + 1 => IntFromHex(db.lastfile) = FileNumber(k)

\* C15 as stated: the loop has no terminal state in normal operation: in a
\* process left to itself, when every fetch succeeds within its retry budget
\* and no decode or persistence error occurs, every file start + 64*k (k
\* within the horizon) is eventually stored as the checkpoint, and the
\* process stops only by a fatal error.
C15_LoopRunsOn ==
    /\ \A k \in 0..(MaxCycles - 1) : <>(StoppedByListedError \/ StoredAsCheckpoint(k))
    /\ [](pc = "dead" => run.exit.cause \in {"fetch", "decode", "insert", "persist"})

====
